---- MODULE Spec2Model ----
(***************************************************************************)
(* Model of the analysis pages of the land-area automation front end:      *)
(*   ComprehensiveAnalysisPage.onSubmit   (prefix ca)                      *)
(*   PropertyValuationPage.onSubmit       (prefix pv)                      *)
(*   BeneficiaryScoringPage.onSubmit      (prefix bs)                      *)
(*   PropertyRecommendationsPage.onSubmit (prefix pr)                      *)
(* and of the versioned model context the design describes (prefix mv).    *)
(*                                                                         *)
(* Units: money in whole dollars; scores, weights, similarity and          *)
(* confidence in thousandths (0.85 is 850, 65 points are 65000).           *)
(* Math.random() returns k / RandDen for a k in RandSamples.               *)
(***************************************************************************)
EXTENDS Integers, Sequences, FiniteSets, TLC

\* Resolution of the grid Math.random() is sampled on.
RandDen == 2

\* The samples drawn: the least and the greatest point of the grid in [0,1).
RandSamples == {0, RandDen - 1}

\* Math.random() * span, for the sample k
Rand(k, span) == (k * span) \div RandDen

\* Math.floor(Math.random() * n), for the sample k
RandFloor(k, n) == (k * n) \div RandDen

Abs(x) == IF x < 0 THEN -x ELSE x

RECURSIVE SumSeq(_)
SumSeq(s) == IF s = <<>> THEN 0 ELSE Head(s) + SumSeq(Tail(s))

IsPrefix(s, t) == Len(s) <= Len(t) /\ SubSeq(t, 1, Len(s)) = s

VARIABLES
    caLoading,      \* ComprehensiveAnalysisPage: useState loading
    caResult,       \* useState result (NoResult is null)
    caActiveStep,   \* useState activeStep
    caPc,           \* position of onSubmit: "idle" or "await" (inside the loop's await)
    caI,            \* the loop variable i of onSubmit
    caData,         \* the request being analysed
    caToast,        \* the last toast shown: "none", "success" or "error"
    caTrace,        \* the stages the current request has entered, in order
    caSteps         \* the arguments of the setActiveStep calls of the current run, in order

caVars == <<caLoading, caResult, caActiveStep, caPc, caI, caData, caToast, caTrace, caSteps>>

VARIABLES
    mvLoaded,       \* the model version loaded
    mvCtx,          \* per request: the version of its context, 0 when not in flight
    mvUsed,         \* per request: the versions its stages have run with, in order
    mvMid,          \* per request: a rotation happened between two of its stages
    mvInput,        \* per request: the inputs it was received with
    mvOut,          \* per request: the outputs of its stages so far, in order
    mvAborted,      \* per request: its caller aborted it before it returned
    mvStore         \* what the core has persisted

mvVars == <<mvLoaded, mvCtx, mvUsed, mvMid, mvInput, mvOut, mvAborted, mvStore>>

VARIABLES
    pvLoading,      \* PropertyValuationPage: useState loading
    pvResult,       \* useState result (NoResult is null)
    pvPc,           \* position of onSubmit: "idle" or "await"
    pvData,         \* the form data of the run in flight or last run
    pvToast,        \* the last toast shown
    pvLog           \* history: the <<input, result>> of the valuations returned

pvVars == <<pvLoading, pvResult, pvPc, pvData, pvToast, pvLog>>

VARIABLES
    bsLoading,      \* BeneficiaryScoringPage: useState loading
    bsResult,       \* useState result (NoResult is null)
    bsPc,           \* position of onSubmit: "idle" or "await"
    bsData,         \* the form data of the run in flight or last run
    bsToast         \* the last toast shown

bsVars == <<bsLoading, bsResult, bsPc, bsData, bsToast>>

VARIABLES
    prLoading,      \* PropertyRecommendationsPage: useState loading
    prResults,      \* useState results
    prPc,           \* position of onSubmit: "idle" or "await"
    prData,         \* the form data of the run in flight or last run
    prToast,        \* the last toast shown
    prRepeat        \* history: the run in flight has the form data of the run
                    \* that returned the results shown

prVars == <<prLoading, prResults, prPc, prData, prToast, prRepeat>>

VARIABLES
    scInput,        \* Beneficiary Scorer: the raw inputs and weights of the last call
    scResult        \* its ScoreResult with the Explanation, or its error

scVars == <<scInput, scResult>>

VARIABLES
    auUser,         \* AuthProvider: useState user (AuNoUser is null)
    auLoading,      \* useState loading
    auToken,        \* localStorage 'access_token' ("none" when absent)
    auCheck,        \* position of checkAuth: "start", "await" or "done"
    auLogin,        \* position of login: "idle", "awaitLogin" or "awaitUser"
    auRegister,     \* position of register: "idle", "awaitRegister" or "inLogin"
    auPath,         \* the location of the router
    auLegacy,       \* localStorage 'token' ("none" when absent)
    auAuto,         \* a request through automationApi: "idle" or "await"
    auSent,         \* history: the last request sent, as its interceptor left it
    auLast,         \* history: what the last call of login returned
    auWrote,        \* history: the last call of login stored a token
    auChain         \* history: the locations since the last event that was
                    \* not a redirect of a route guard

auVars == <<auUser, auLoading, auToken, auCheck, auLogin, auRegister, auPath,
            auLegacy, auAuto, auSent, auLast, auWrote, auChain>>

VARIABLES
    ctUser,         \* contact permissions: the user of the auth context
    ctDirect,       \* the last call of useAgentAssignment.canContactDirectly
    ctDialog,       \* the last call of ContactAgentDialog.canContact
    ctPage          \* the last call of PropertiesPage.handleContactAgent

ctVars == <<ctUser, ctDirect, ctDialog, ctPage>>

VARIABLES
    msSelected,     \* MessagesPage: useState selectedConversation (its id)
    msMessages,     \* useState messages
    msDraft,        \* useState newMessage
    msEnh,          \* useState enhancementData
    msSugg,         \* useState aiSuggestions
    msAiLoading,    \* useState aiAnalysisLoading
    msSends,        \* calls of handleSendMessage awaiting the land analysis
    msTimers,       \* AI replies pending (setTimeout and the awaited response)
    msEnhancing,    \* calls of handleMessageEnhancement awaiting enhanceMessage
    msComposed      \* history: the number of drafts composed so far

msVars == <<msSelected, msMessages, msDraft, msEnh, msSugg, msAiLoading,
            msSends, msTimers, msEnhancing, msComposed>>

VARIABLES
    laPc,           \* generateLandAnalysisResponse: "idle" or "await" (the timer of 2000 ms)
    laRaw,          \* the local overallScore of the call, before rounding (0: not drawn)
    laResponse      \* the LandAnalysisResponse the call returned

laVars == <<laPc, laRaw, laResponse>>

vars == <<caVars, mvVars, pvVars, bsVars, prVars, scVars, auVars, ctVars, msVars, laVars>>

NoResult == [kind |-> "null"]

(***************************************************************************)
(* ComprehensiveAnalysisPage                                               *)
(***************************************************************************)

analysisSteps == <<"Property Valuation (AVM)", "Beneficiary Scoring",
                   "Property Recommendations", "Risk Assessment", "AI Explanations">>

\* The boolean flags of a comprehensive-analysis request, as the API
\* documentation lists them. ComprehensiveAnalysisForm has no field for them.
CaRequests == [include_recommendations : BOOLEAN, include_explanations : BOOLEAN]

\* recommendations: Array.from({ length: 5 }, (_, index) => ({ id: index + 1, ... }))
\* (address, predicted_value, similarity_score and confidence_score of the
\* entries are random and read by nothing; the model keeps the id)
CaRecommendations == [index \in 1..5 |-> [id |-> index]]

\* explanation.valuation_factors, the impact of each factor
CaValuationFactors ==
    << [feature |-> "Square Footage", impact |-> 45000],
       [feature |-> "Location Quality", impact |-> 25000],
       [feature |-> "Property Age", impact |-> -8000] >>

\* explanation.scoring_factors
CaScoringFactors ==
    << [component |-> "School Quality", score |-> 85000, weight |-> 8000],
       [component |-> "Safety", score |-> 70000, weight |-> 6000],
       [component |-> "Environment", score |-> 88000, weight |-> 5000] >>

\* mockResult of onSubmit, for the samples r of its Math.random() calls
CaMockResult(r) ==
    [ kind |-> "result",
      property_valuation |->
        [ predicted_value  |-> 275000 + Rand(r[1], 100000),
          value_uncertainty |-> 15000 + Rand(r[2], 10000),
          price_per_sqft   |-> 183330,
          confidence_score |-> 850 + Rand(r[3], 100) ],
      beneficiary_score |->
        [ overall_score       |-> 65000 + Rand(r[4], 30000),
          value_score         |-> 70000 + Rand(r[5], 25000),
          school_score        |-> 80000 + Rand(r[6], 20000),
          safety_score        |-> 60000 + Rand(r[7], 30000),
          environmental_score |-> 85000 + Rand(r[8], 15000),
          accessibility_score |-> 75000 + Rand(r[9], 20000) ],
      recommendations |-> CaRecommendations,
      explanation |->
        [ valuation_factors |-> CaValuationFactors,
          scoring_factors   |-> CaScoringFactors ] ]

CaInit ==
    /\ caLoading = FALSE
    /\ caResult = NoResult
    /\ caActiveStep = 0
    /\ caPc = "idle"
    /\ caI = 0
    /\ caData = [include_recommendations |-> TRUE, include_explanations |-> TRUE]
    /\ caToast = "none"
    /\ caTrace = <<>>
    /\ caSteps = <<>>

\* handleSubmit(onSubmit) up to the first await. The submit button is disabled
\* while loading, so a second run starts only after the first has ended.
CaSubmit(data) ==
    /\ caPc = "idle"
    /\ ~caLoading
    /\ caLoading' = TRUE
    /\ caActiveStep' = 0
    /\ caPc' = "await"
    /\ caI' = 0
    /\ caData' = data
    /\ caTrace' = <<"received">>
    /\ caSteps' = <<0>>
    /\ UNCHANGED <<caResult, caToast>>

\* CaStep entering the stage after the next one
CaStepSkipsStage ==
    /\ caPc = "await"
    /\ caI < Len(analysisSteps) - 1
    /\ caActiveStep' = caI + 1
    /\ caI' = caI + 1
    /\ caTrace' = Append(caTrace, analysisSteps[caI + 2])
    /\ caSteps' = Append(caSteps, caI + 1)
    /\ UNCHANGED <<caLoading, caResult, caPc, caData, caToast>>

\* The timer of iteration i < 4 fires: setActiveStep(i + 1), next iteration.
CaStep ==
    /\ caPc = "await"
    /\ caI < Len(analysisSteps) - 1
    /\ caActiveStep' = caI + 1
    /\ caI' = caI + 1
    /\ caTrace' = Append(caTrace, analysisSteps[caI + 1])
    /\ caSteps' = Append(caSteps, caI + 1)
    /\ UNCHANGED <<caLoading, caResult, caPc, caData, caToast>>

\* CaFinish without the setActiveStep(0) of the finally block
CaFinishKeepsStep(r) ==
    /\ caPc = "await"
    /\ caI = Len(analysisSteps) - 1
    /\ caResult' = CaMockResult(r)
    /\ caToast' = "success"
    /\ caTrace' = caTrace \o <<analysisSteps[caI + 1], "assembled", "returned">>
    /\ caSteps' = Append(caSteps, caI + 1)
    /\ caLoading' = FALSE
    /\ caActiveStep' = caI + 1
    /\ caPc' = "idle"
    /\ caI' = caI + 1
    /\ UNCHANGED caData

\* The last timer fires: setActiveStep(5), the loop ends, mockResult is built,
\* setResult, toast.success, and the finally block runs: setLoading(false),
\* setActiveStep(0).
CaFinish(r) ==
    /\ caPc = "await"
    /\ caI = Len(analysisSteps) - 1
    /\ caResult' = CaMockResult(r)
    /\ caToast' = "success"
    /\ caTrace' = caTrace \o <<analysisSteps[caI + 1], "assembled", "returned">>
    /\ caSteps' = caSteps \o <<caI + 1, 0>>
    /\ caLoading' = FALSE
    /\ caActiveStep' = 0
    /\ caPc' = "idle"
    /\ caI' = caI + 1
    /\ UNCHANGED caData

\* CaThrow with a catch block that swallows the error and reports a result
CaThrowMasked ==
    /\ caPc = "await"
    /\ caToast' = "success"
    /\ caResult' = CaMockResult([n \in 1..9 |-> 0])
    /\ caTrace' = caTrace \o <<"failed", "returned">>
    /\ caSteps' = Append(caSteps, 0)
    /\ caLoading' = FALSE
    /\ caActiveStep' = 0
    /\ caPc' = "idle"
    /\ UNCHANGED <<caI, caData>>

\* The step awaited throws: the catch block shows the error toast, the finally
\* block runs; setResult is not reached.
CaThrow ==
    /\ caPc = "await"
    /\ caToast' = "error"
    /\ caTrace' = caTrace \o <<"failed", "returned">>
    /\ caSteps' = Append(caSteps, 0)
    /\ caLoading' = FALSE
    /\ caActiveStep' = 0
    /\ caPc' = "idle"
    /\ UNCHANGED <<caResult, caI, caData>>

(***************************************************************************)
(* The versioned model context (no code of it is among the sources; it is   *)
(* modelled from the design: the loaded artifacts are an immutable context  *)
(* object handed to a request, rotation replaces the loaded object).        *)
(***************************************************************************)

\* Highest model version the rotation reaches.
MaxVersion == 3

MvRequests == {1, 2}

MvStages == <<"feature normalization", "valuation", "scoring", "explanation">>

\* The inputs of a request: the pre-supplied property record and location.
MvInputs == {"property A", "property B"}

\* The output of stage n: a function of the request's inputs and of the
\* versioned artifacts, and of nothing else.
MvStageOutput(n, input, version) ==
    [stage |-> MvStages[n], input |-> input, version |-> version]

\* The result of a request that runs alone.
MvAlone(input, version) ==
    [n \in 1..Len(MvStages) |-> MvStageOutput(n, input, version)]

\* MvStageInput reading one slot shared by the requests in flight
MvStageInputShared(q) == mvInput[CHOOSE p \in MvRequests : mvCtx[p] # 0]

\* The inputs a stage of request q reads: those the request was received with.
MvStageInput(q) == mvInput[q]

\* MvArtifact reading the ambient loaded version
MvArtifactAmbient(q) == mvLoaded

\* The version of the artifacts a stage of request q reads: the context the
\* request was handed at reception.
MvArtifact(q) == mvCtx[q]

MvInit ==
    /\ mvLoaded = 1
    /\ mvCtx = [q \in MvRequests |-> 0]
    /\ mvUsed = [q \in MvRequests |-> <<>>]
    /\ mvMid = [q \in MvRequests |-> FALSE]
    /\ mvInput = [q \in MvRequests |-> "none"]
    /\ mvOut = [q \in MvRequests |-> <<>>]
    /\ mvAborted = [q \in MvRequests |-> FALSE]
    /\ mvStore = {}

\* A request is received with its inputs and handed the loaded context.
MvReceive(q, input) ==
    /\ mvCtx[q] = 0
    /\ mvCtx' = [mvCtx EXCEPT ![q] = mvLoaded]
    /\ mvUsed' = [mvUsed EXCEPT ![q] = <<>>]
    /\ mvMid' = [mvMid EXCEPT ![q] = FALSE]
    /\ mvInput' = [mvInput EXCEPT ![q] = input]
    /\ mvOut' = [mvOut EXCEPT ![q] = <<>>]
    /\ mvAborted' = [mvAborted EXCEPT ![q] = FALSE]
    /\ UNCHANGED <<mvLoaded, mvStore>>

\* The next stage of request q runs with the artifacts of its context.
MvStage(q) ==
    /\ mvCtx[q] # 0
    /\ Len(mvUsed[q]) < Len(MvStages)
    /\ mvUsed' = [mvUsed EXCEPT ![q] = Append(@, MvArtifact(q))]
    /\ mvOut' = [mvOut EXCEPT ![q] =
                   Append(@, MvStageOutput(Len(@) + 1, MvStageInput(q), MvArtifact(q)))]
    /\ UNCHANGED <<mvLoaded, mvCtx, mvMid, mvInput, mvAborted, mvStore>>

\* Request q has run all its stages and is returned: mvOut[q] is its result,
\* handed to the caller; the core keeps nothing.
MvReturn(q) ==
    /\ mvCtx[q] # 0
    /\ Len(mvUsed[q]) = Len(MvStages)
    /\ mvCtx' = [mvCtx EXCEPT ![q] = 0]
    /\ UNCHANGED <<mvLoaded, mvUsed, mvMid, mvInput, mvOut, mvAborted, mvStore>>

\* MvAbort persisting what the request had computed
MvAbortPersists(q) ==
    /\ mvCtx[q] # 0
    /\ mvCtx' = [mvCtx EXCEPT ![q] = 0]
    /\ mvOut' = [mvOut EXCEPT ![q] = <<>>]
    /\ mvAborted' = [mvAborted EXCEPT ![q] = TRUE]
    /\ mvStore' = mvStore \cup {mvOut[q]}
    /\ UNCHANGED <<mvLoaded, mvUsed, mvMid, mvInput>>

\* The caller of request q aborts before the orchestrator returns: what the
\* request has computed so far is dropped.
MvAbort(q) ==
    /\ mvCtx[q] # 0
    /\ mvCtx' = [mvCtx EXCEPT ![q] = 0]
    /\ mvOut' = [mvOut EXCEPT ![q] = <<>>]
    /\ mvAborted' = [mvAborted EXCEPT ![q] = TRUE]
    /\ UNCHANGED <<mvLoaded, mvUsed, mvMid, mvInput, mvStore>>

\* The loaded model version is rotated from N to N + 1. mvMid records the
\* requests that were between two of their stages at that moment.
MvRotate ==
    /\ mvLoaded < MaxVersion
    /\ mvLoaded' = mvLoaded + 1
    /\ mvMid' = [q \in MvRequests |->
                   mvMid[q] \/ (mvCtx[q] # 0 /\ Len(mvUsed[q]) > 0
                                /\ Len(mvUsed[q]) < Len(MvStages))]
    /\ UNCHANGED <<mvCtx, mvUsed, mvInput, mvOut, mvAborted, mvStore>>

(***************************************************************************)
(* The Beneficiary Scorer (no code of it is among the sources; it is        *)
(* modelled from the design: five named sub-scoring functions onto [0,100], *)
(* a neutral default for a missing raw input, a weight-normalized sum).     *)
(***************************************************************************)

ScComponents == <<"value", "school", "safety", "environmental", "accessibility">>

\* A raw input is missing or a normalized quantity in thousandths.
ScMissing == [present |-> FALSE]

ScRawInputs == {ScMissing} \cup [present : {TRUE}, value : {0, 1000}]

\* The neutral default component score, 50 points, in thousandths of a point.
ScNeutral == 50000

\* The documented default weights and the weights of all zeros.
ScDefaultWeights == <<8, 8, 6, 5, 7>>

ScZeroWeights == <<0, 0, 0, 0, 0>>

\* The sub-scoring function of component n: the safety and environmental
\* components are inverted from a crime rate and a hazard index, a missing
\* input takes the neutral default.
ScComponentScore(n, raw) ==
    IF ~raw.present THEN ScNeutral
    ELSE IF ScComponents[n] \in {"safety", "environmental"}
         THEN 100000 - raw.value * 100
         ELSE raw.value * 100

\* ScDescribe never stating that a default was used
ScDescribeSilent(n, raw) ==
    [component |-> ScComponents[n], default_used |-> FALSE]

\* The Explanation's description of component n.
ScDescribe(n, raw) ==
    [component |-> ScComponents[n], default_used |-> ~raw.present]

\* The ScoreResult of the raw inputs under the weights w.
ScScoreResult(raw, w) ==
    IF SumSeq(w) = 0 THEN [kind |-> "ValidationError"]
    ELSE LET comp == [n \in 1..Len(ScComponents) |-> ScComponentScore(n, raw[n])]
         IN  [ kind |-> "result",
               components |-> comp,
               weights |-> w,
               overall |-> SumSeq([n \in 1..Len(comp) |-> comp[n] * w[n]]) \div SumSeq(w),
               explanation |-> [n \in 1..Len(ScComponents) |-> ScDescribe(n, raw[n])] ]

ScInit ==
    /\ scInput = [kind |-> "null"]
    /\ scResult = NoResult

\* One call of the scorer.
ScScore(raw, w) ==
    /\ scInput' = [kind |-> "input", raw |-> raw, weights |-> w]
    /\ scResult' = ScScoreResult(raw, w)

(***************************************************************************)
(* AuthProvider, the route guards of App, Layout.handleLogout and the      *)
(* interceptors of the two API clients                                     *)
(***************************************************************************)

AuNoUser == "null"

\* The users getCurrentUser returns: one with is_admin false, one with true.
AuUsers == {"user", "admin"}

\* The status of a failed response: 401 runs the response interceptor of the
\* client.
AuStatuses == {401, 500}

\* Routes of App: guarded by PublicRoute, ProtectedRoute, AdminRoute, bare,
\* or matched by the catch-all route only.
AuGuard ==
    [ p \in {"/", "/login", "/register", "/dashboard", "/automation",
             "/properties", "/admin", "/unknown"} |->
        CASE p \in {"/", "/login", "/register"} -> "public"
          [] p \in {"/dashboard", "/automation"} -> "protected"
          [] p = "/admin" -> "admin"
          [] p = "/unknown" -> "catch-all"
          [] OTHER -> "none" ]

AuPaths == DOMAIN AuGuard

\* ProtectedRoute without the test of user
AuProtectedRouteOpen(user, loading) ==
    IF loading THEN [kind |-> "LoadingSpinner"]
    ELSE [kind |-> "children"]

ProtectedRoute(user, loading) ==
    IF loading THEN [kind |-> "LoadingSpinner"]
    ELSE IF user = AuNoUser THEN [kind |-> "Navigate", to |-> "/login"]
    ELSE [kind |-> "children"]

AdminRoute(user, loading) ==
    IF loading THEN [kind |-> "LoadingSpinner"]
    ELSE IF user # "admin" THEN [kind |-> "Navigate", to |-> "/dashboard"]
    ELSE [kind |-> "children"]

\* PublicRoute redirecting whether or not there is a user
AuPublicRouteAlways(user, loading) ==
    IF loading THEN [kind |-> "LoadingSpinner"]
    ELSE [kind |-> "Navigate", to |-> "/dashboard"]

PublicRoute(user, loading) ==
    IF loading THEN [kind |-> "LoadingSpinner"]
    ELSE IF user # AuNoUser THEN [kind |-> "Navigate", to |-> "/dashboard"]
    ELSE [kind |-> "children"]

\* What the route of path p renders.
AuRender(p) ==
    CASE AuGuard[p] = "public" -> PublicRoute(auUser, auLoading)
      [] AuGuard[p] = "protected" -> ProtectedRoute(auUser, auLoading)
      [] AuGuard[p] = "admin" -> AdminRoute(auUser, auLoading)
      [] AuGuard[p] = "catch-all" -> [kind |-> "Navigate", to |-> "/"]
      [] OTHER -> [kind |-> "children"]

\* The Authorization header a request interceptor sets from the token it
\* finds in localStorage.
AuAuthorization(token) ==
    IF token # "none" THEN [scheme |-> "Bearer", token |-> token]
    ELSE [scheme |-> "none"]

\* api.interceptors.request: the token is read from 'access_token'.
AuApiRequest(token) ==
    [client |-> "api", authorization |-> AuAuthorization(token),
     user |-> auUser, access_token |-> token]

\* automationApi.interceptors.request: the token is read from 'token'.
AuAutomationApiRequest ==
    [client |-> "automationApi", authorization |-> AuAuthorization(auLegacy),
     user |-> auUser, access_token |-> auToken]

\* The application is loaded for the first time, at the home page; AuReload
\* loads it at the other paths and with what localStorage then holds.
AuInit ==
    /\ auUser = AuNoUser
    /\ auLoading = TRUE
    /\ auToken = "none"
    /\ auLegacy = "none"
    /\ auCheck = "start"
    /\ auLogin = "idle"
    /\ auRegister = "idle"
    /\ auAuto = "idle"
    /\ auPath = "/"
    /\ auSent = [client |-> "none"]
    /\ auLast = "none"
    /\ auWrote = FALSE
    /\ auChain = <<"/">>

\* The page is loaded at path p: the state of AuthProvider is constructed
\* anew, what was in flight is gone, localStorage is kept.
AuStartup(p) ==
    /\ auUser' = AuNoUser
    /\ auLoading' = TRUE
    /\ auCheck' = "start"
    /\ auLogin' = "idle"
    /\ auRegister' = "idle"
    /\ auAuto' = "idle"
    /\ auPath' = p
    /\ auLast' = "none"
    /\ auWrote' = FALSE
    /\ auChain' = <<p>>

\* The response interceptor of api on a 401: 'access_token' is removed and
\* window.location.href = '/login' loads the page anew.
AuUnauthorized ==
    /\ auToken' = "none"
    /\ AuStartup("/login")
    /\ UNCHANGED <<auLegacy, auSent>>

\* checkAuth up to its await: without a token, setLoading(false).
AuCheckStart ==
    /\ auCheck = "start"
    /\ IF auToken # "none"
       THEN /\ auCheck' = "await"
            /\ auSent' = AuApiRequest(auToken)
            /\ UNCHANGED auLoading
       ELSE /\ auCheck' = "done"
            /\ auLoading' = FALSE
            /\ UNCHANGED auSent
    /\ UNCHANGED <<auUser, auToken, auLegacy, auLogin, auRegister, auAuto, auPath,
                   auLast, auWrote, auChain>>

\* getCurrentUser of checkAuth resolves: setUser, setLoading(false).
AuCheckResolve(u) ==
    /\ auCheck = "await"
    /\ auUser' = u
    /\ auLoading' = FALSE
    /\ auCheck' = "done"
    /\ UNCHANGED <<auToken, auLegacy, auLogin, auRegister, auAuto, auPath, auSent,
                   auLast, auWrote, auChain>>

\* getCurrentUser of checkAuth rejects: the catch block removes the token,
\* then setLoading(false).
AuCheckReject(status) ==
    /\ auCheck = "await"
    /\ IF status = 401 THEN AuUnauthorized
       ELSE /\ auToken' = "none"
            /\ auLoading' = FALSE
            /\ auCheck' = "done"
            /\ UNCHANGED <<auUser, auLegacy, auLogin, auRegister, auAuto, auPath,
                           auSent, auLast, auWrote, auChain>>

\* A login page (under PublicRoute) submits: login up to its first await.
AuLoginStart ==
    /\ auPath = "/login"
    /\ AuRender(auPath).kind = "children"
    /\ auLogin = "idle"
    /\ auLoading' = TRUE
    /\ auLogin' = "awaitLogin"
    /\ auSent' = AuApiRequest(auToken)
    /\ auLast' = "none"
    /\ auWrote' = FALSE
    /\ auChain' = <<auPath>>
    /\ UNCHANGED <<auUser, auToken, auLegacy, auCheck, auRegister, auAuto, auPath>>

\* authAPI.login resolves: the token is stored, getCurrentUser is awaited.
AuLoginToken ==
    /\ auLogin = "awaitLogin"
    /\ auToken' = "token"
    /\ auWrote' = TRUE
    /\ auLogin' = "awaitUser"
    /\ auSent' = AuApiRequest("token")
    /\ UNCHANGED <<auUser, auLoading, auLegacy, auCheck, auRegister, auAuto, auPath,
                   auLast, auChain>>

\* getCurrentUser of login resolves: setUser, return true, finally
\* setLoading(false); register returns true after its own finally; the page
\* that called then navigates to /dashboard.
AuLoginResolve(u) ==
    /\ auLogin = "awaitUser"
    /\ auUser' = u
    /\ auLoading' = FALSE
    /\ auLogin' = "idle"
    /\ auRegister' = "idle"
    /\ auPath' = "/dashboard"
    /\ auLast' = "true"
    /\ auChain' = <<"/dashboard">>
    /\ UNCHANGED <<auToken, auLegacy, auCheck, auAuto, auSent, auWrote>>

\* authAPI.login or getCurrentUser of login rejects: the catch block returns
\* false, finally setLoading(false); register returns false likewise.
AuLoginReject(status) ==
    /\ auLogin # "idle"
    /\ IF status = 401 THEN AuUnauthorized
       ELSE /\ auLoading' = FALSE
            /\ auLogin' = "idle"
            /\ auRegister' = "idle"
            /\ auLast' = "false"
            /\ UNCHANGED <<auUser, auToken, auLegacy, auCheck, auAuto, auPath,
                           auSent, auWrote, auChain>>

\* RegisterPage submits: register up to its first await.
AuRegisterStart ==
    /\ auPath = "/register"
    /\ AuRender(auPath).kind = "children"
    /\ auRegister = "idle"
    /\ auLogin = "idle"
    /\ auLoading' = TRUE
    /\ auRegister' = "awaitRegister"
    /\ auSent' = AuApiRequest(auToken)
    /\ auChain' = <<auPath>>
    /\ UNCHANGED <<auUser, auToken, auLegacy, auCheck, auLogin, auAuto, auPath,
                   auLast, auWrote>>

\* authAPI.register resolves: register calls login, which runs up to its
\* first await.
AuRegisterResolve ==
    /\ auRegister = "awaitRegister"
    /\ auRegister' = "inLogin"
    /\ auLoading' = TRUE
    /\ auLogin' = "awaitLogin"
    /\ auSent' = AuApiRequest(auToken)
    /\ auLast' = "none"
    /\ auWrote' = FALSE
    /\ UNCHANGED <<auUser, auToken, auLegacy, auCheck, auAuto, auPath, auChain>>

\* authAPI.register rejects: the catch block returns false, finally
\* setLoading(false).
AuRegisterReject(status) ==
    /\ auRegister = "awaitRegister"
    /\ IF status = 401 THEN AuUnauthorized
       ELSE /\ auLoading' = FALSE
            /\ auRegister' = "idle"
            /\ UNCHANGED <<auUser, auToken, auLegacy, auCheck, auLogin, auAuto,
                           auPath, auSent, auLast, auWrote, auChain>>

\* Layout is on the page: under a guard that renders its children, or bare.
AuLayoutShown ==
    /\ AuGuard[auPath] # "public"
    /\ AuRender(auPath).kind = "children"

\* Layout.handleLogout: logout() removes the token and sets user to null,
\* then navigate('/login').
AuLogout ==
    /\ AuLayoutShown
    /\ auToken' = "none"
    /\ auUser' = AuNoUser
    /\ auPath' = "/login"
    /\ auLast' = "none"
    /\ auChain' = <<"/login">>
    /\ UNCHANGED <<auLoading, auLegacy, auCheck, auLogin, auRegister, auAuto,
                   auSent, auWrote>>

\* A page of the automation routes sends a request through automationApi.
AuAutomationSend ==
    /\ auPath = "/automation"
    /\ AuRender(auPath).kind = "children"
    /\ auAuto = "idle"
    /\ auAuto' = "await"
    /\ auSent' = AuAutomationApiRequest
    /\ auChain' = <<auPath>>
    /\ UNCHANGED <<auUser, auLoading, auToken, auLegacy, auCheck, auLogin,
                   auRegister, auPath, auLast, auWrote>>

\* The request resolves.
AuAutomationResolve ==
    /\ auAuto = "await"
    /\ auAuto' = "idle"
    /\ UNCHANGED <<auUser, auLoading, auToken, auLegacy, auCheck, auLogin,
                   auRegister, auPath, auSent, auLast, auWrote, auChain>>

\* The request rejects; on a 401 the response interceptor of automationApi
\* removes 'token' and window.location.href = '/login' loads the page anew.
AuAutomationReject(status) ==
    /\ auAuto = "await"
    /\ IF status = 401
       THEN /\ auLegacy' = "none"
            /\ AuStartup("/login")
            /\ UNCHANGED <<auToken, auSent>>
       ELSE /\ auAuto' = "idle"
            /\ UNCHANGED <<auUser, auLoading, auToken, auLegacy, auCheck, auLogin,
                           auRegister, auPath, auSent, auLast, auWrote, auChain>>

\* A link, a menu item or the history of the browser changes the location.
AuNavigate(p) ==
    /\ p # auPath
    /\ auPath' = p
    /\ auChain' = <<p>>
    /\ UNCHANGED <<auUser, auLoading, auToken, auLegacy, auCheck, auLogin,
                   auRegister, auAuto, auSent, auLast, auWrote>>

\* The route renders a Navigate element: the location is replaced. (The
\* chain of redirects is followed for as many steps as there are paths.)
AuRedirect ==
    /\ AuRender(auPath).kind = "Navigate"
    /\ Len(auChain) <= Cardinality(AuPaths)
    /\ auPath' = AuRender(auPath).to
    /\ auChain' = Append(auChain, AuRender(auPath).to)
    /\ UNCHANGED <<auUser, auLoading, auToken, auLegacy, auCheck, auLogin,
                   auRegister, auAuto, auSent, auLast, auWrote>>

\* The page is loaded anew at path p (reload, or a URL entered).
AuReload(p) ==
    /\ AuStartup(p)
    /\ UNCHANGED <<auToken, auLegacy, auSent>>

(***************************************************************************)
(* Contact permissions: useAgentAssignment, ContactAgentDialog and         *)
(* PropertiesPage                                                          *)
(***************************************************************************)

\* user_role of User
CtRoles == {"buyer", "seller", "buyer_agent", "seller_agent"}

\* The user of the auth context: null or a user of one of the roles.
CtUsers == {"null"} \cup CtRoles

\* The user_role of an agent, which may be unspecified.
CtAgentRoles == CtRoles \cup {"undefined"}

\* property.agent: absent, or an agent.
CtPropertyAgents == {[present |-> FALSE]} \cup [present : {TRUE}, user_role : CtAgentRoles]

CtIsAgent(role) == role \in {"buyer_agent", "seller_agent"}

\* useAgentAssignment.canContactDirectly
canContactDirectly(user, targetUserRole) ==
    IF user = "null" THEN FALSE
    ELSE IF user = "buyer_agent" \/ user = "seller_agent" THEN TRUE
    ELSE IF user = "buyer" /\ targetUserRole = "seller_agent" THEN TRUE
    ELSE IF user = "seller" THEN FALSE
    ELSE FALSE

\* canContact letting a seller contact the agent
CtCanContactSellerToo(user, agent) ==
    IF user = "null" THEN [verdict |-> FALSE, error |-> "none"]
    ELSE [verdict |-> TRUE, error |-> "none"]

\* ContactAgentDialog.canContact: its verdict and the error it sets.
canContact(user, agent) ==
    IF user = "null" THEN [verdict |-> FALSE, error |-> "none"]
    ELSE IF user = "buyer"
         THEN IF agent.user_role = "seller_agent" \/ agent.user_role = "undefined"
              THEN [verdict |-> TRUE, error |-> "none"]
              ELSE IF agent.user_role = "seller"
                   THEN [verdict |-> FALSE, error |-> "contact the listing agent"]
                   ELSE [verdict |-> TRUE, error |-> "none"]
    ELSE IF user = "seller"
         THEN [verdict |-> FALSE, error |-> "work with your seller agent"]
    ELSE IF CtIsAgent(user) THEN [verdict |-> TRUE, error |-> "none"]
    ELSE [verdict |-> FALSE, error |-> "none"]

\* PropertiesPage.handleContactAgent: where it navigates and the error it
\* sets.
handleContactAgent(user, agent) ==
    IF user = "null" THEN [navigate |-> "/login", error |-> "none"]
    ELSE IF user = "buyer"
         THEN IF agent.present /\ agent.user_role = "seller_agent"
              THEN [navigate |-> "/messages/new", error |-> "none"]
              ELSE [navigate |-> "none", error |-> "no assigned seller agent"]
    ELSE IF user = "seller"
         THEN [navigate |-> "none", error |-> "work with your seller agent"]
    ELSE IF agent.present
         THEN [navigate |-> "/messages/new", error |-> "none"]
         ELSE [navigate |-> "none", error |-> "no assigned agent"]

CtInit ==
    /\ ctUser = "null"
    /\ ctDirect = [kind |-> "none"]
    /\ ctDialog = [kind |-> "none"]
    /\ ctPage = [kind |-> "none"]

\* The auth context gets another user (login, logout).
CtSetUser(u) ==
    /\ u # ctUser
    /\ ctUser' = u
    /\ UNCHANGED <<ctDirect, ctDialog, ctPage>>

CtCallCanContactDirectly(target) ==
    /\ ctDirect' = [kind |-> "call", user |-> ctUser, target |-> target,
                    verdict |-> canContactDirectly(ctUser, target)]
    /\ UNCHANGED <<ctUser, ctDialog, ctPage>>

CtCallCanContact(agent) ==
    /\ ctDialog' = [kind |-> "call", user |-> ctUser, target |-> agent.user_role,
                    verdict |-> canContact(ctUser, agent).verdict,
                    error |-> canContact(ctUser, agent).error]
    /\ UNCHANGED <<ctUser, ctDirect, ctPage>>

CtCallHandleContactAgent(agent) ==
    /\ ctPage' = [kind |-> "call", user |-> ctUser, agent |-> agent,
                  navigate |-> handleContactAgent(ctUser, agent).navigate,
                  error |-> handleContactAgent(ctUser, agent).error]
    /\ UNCHANGED <<ctUser, ctDirect, ctDialog>>

(***************************************************************************)
(* MessagesPage (the user of the auth context is not null: the page is     *)
(* under ProtectedRoute)                                                   *)
(***************************************************************************)

\* Number of drafts composed in a behaviour.
MaxCompose == 2

\* Number of calls of one kind awaiting at the same time.
MaxFlight == 2

\* The conversations of fetchConversations (their ids).
MsConversations == {1, 2}

\* Drafts: one without a keyword, one with the keyword "analysis", and the
\* first suggested response ("... a detailed market analysis ...").
MsTexts == {"hello", "analysis", "suggested: market analysis"}

\* enhanceMessage: hasLandAnalysisKeywords
MsHasLandAnalysis(text) == text \in {"analysis", "suggested: market analysis"}

\* handleSendMessage: the test of the message for analysis, analyze, score,
\* rating, investment or market
MsMentionsAnalysis(text) == text \in {"analysis", "suggested: market analysis"}

MsNoEnhancement == [kind |-> "null"]

MsNoSuggestions == [kind |-> "empty"]

\* nvapiService.enhanceMessage
enhanceMessage(text) ==
    [kind |-> "enhancement", for |-> text, hasLandAnalysis |-> MsHasLandAnalysis(text)]

\* fetchMessages: the mock messages, here one, of the conversation asked for
MsMockMessages(c) == <<[kind |-> "mock", conv |-> c, compose |-> 0]>>

\* The page after mount: fetchConversations has selected the first
\* conversation and fetched its messages.
MsInit ==
    /\ msSelected = 1
    /\ msMessages = MsMockMessages(1)
    /\ msDraft = ""
    /\ msEnh = MsNoEnhancement
    /\ msSugg = MsNoSuggestions
    /\ msAiLoading = FALSE
    /\ msSends = <<>>
    /\ msTimers = <<>>
    /\ msEnhancing = <<>>
    /\ msComposed = 0

\* useEffect[newMessage] after newMessage has become text: a draft that is
\* not blank starts handleMessageEnhancement, which awaits enhanceMessage; a
\* blank one clears the enhancement data and the suggestions.
MsDraftEffect(text) ==
    IF text # ""
    THEN /\ msEnhancing' = Append(msEnhancing, text)
         /\ UNCHANGED <<msEnh, msSugg>>
    ELSE /\ msEnh' = MsNoEnhancement
         /\ msSugg' = MsNoSuggestions
         /\ UNCHANGED msEnhancing

\* onChange of the text field: another draft is composed, or the field is
\* emptied.
MsType(text) ==
    /\ text # msDraft
    /\ text # "" => (msComposed < MaxCompose /\ Len(msEnhancing) < MaxFlight)
    /\ msDraft' = text
    /\ msComposed' = IF text # "" THEN msComposed + 1 ELSE msComposed
    /\ MsDraftEffect(text)
    /\ UNCHANGED <<msSelected, msMessages, msAiLoading, msSends, msTimers>>

\* enhanceMessage resolves: setEnhancementData, setAiSuggestions.
MsEnhanced ==
    /\ msEnhancing # <<>>
    /\ msEnh' = enhanceMessage(Head(msEnhancing))
    /\ msSugg' = [kind |-> "list", for |-> Head(msEnhancing)]
    /\ msEnhancing' = Tail(msEnhancing)
    /\ UNCHANGED <<msSelected, msMessages, msDraft, msAiLoading, msSends, msTimers,
                   msComposed>>

\* handleSuggestedResponse with the first suggestion.
MsSuggested ==
    /\ msSugg # MsNoSuggestions
    /\ msDraft # "suggested: market analysis"
    /\ msComposed < MaxCompose
    /\ Len(msEnhancing) < MaxFlight
    /\ msDraft' = "suggested: market analysis"
    /\ msComposed' = msComposed + 1
    /\ msSugg' = MsNoSuggestions
    /\ msEnhancing' = Append(msEnhancing, "suggested: market analysis")
    /\ UNCHANGED <<msSelected, msMessages, msEnh, msAiLoading, msSends, msTimers>>

\* The message handleSendMessage creates from the state its call has seen.
MsNewMsg(call) ==
    [kind |-> "user", conv |-> call.conv, compose |-> call.compose, content |-> call.text]

\* handleSendMessage, called by the Send button (disabled while the draft is
\* blank or aiAnalysisLoading) or by the Enter key: with shouldAnalyze it
\* awaits the land analysis; otherwise it appends the message and clears the
\* draft, the enhancement data and the suggestions at once.
MsSend(via) ==
    /\ via = "button" => ~msAiLoading
    /\ msDraft # ""
    /\ LET call == [text |-> msDraft, conv |-> msSelected, compose |-> msComposed]
           shouldAnalyze == /\ msEnh # MsNoEnhancement
                            /\ msEnh.hasLandAnalysis
                            /\ MsMentionsAnalysis(msDraft)
       IN  IF shouldAnalyze
           THEN /\ Len(msSends) < MaxFlight
                /\ msAiLoading' = TRUE
                /\ msSends' = Append(msSends, call)
                /\ UNCHANGED <<msMessages, msDraft, msEnh, msSugg>>
           ELSE /\ msMessages' = Append(msMessages, MsNewMsg(call))
                /\ msDraft' = ""
                /\ msEnh' = MsNoEnhancement
                /\ msSugg' = MsNoSuggestions
                /\ msAiLoading' = FALSE
                /\ UNCHANGED msSends
    /\ UNCHANGED <<msSelected, msTimers, msEnhancing, msComposed>>

\* generateLandAnalysisResponse resolves: the message is appended, the draft,
\* the enhancement data and the suggestions are cleared, the AI reply is
\* scheduled, finally setAiAnalysisLoading(false).
MsSendContinue ==
    /\ msSends # <<>>
    /\ Len(msTimers) < MaxFlight
    /\ msMessages' = Append(msMessages, MsNewMsg(Head(msSends)))
    /\ msDraft' = ""
    /\ msEnh' = MsNoEnhancement
    /\ msSugg' = MsNoSuggestions
    /\ msTimers' = Append(msTimers, Head(msSends))
    /\ msSends' = Tail(msSends)
    /\ msAiLoading' = FALSE
    /\ UNCHANGED <<msSelected, msEnhancing, msComposed>>

\* The timer has fired and generateConversationResponse resolves: the AI
\* reply is appended to messages.
MsAiReply ==
    /\ msTimers # <<>>
    /\ msMessages' = Append(msMessages,
                         [kind |-> "ai", conv |-> Head(msTimers).conv,
                          compose |-> Head(msTimers).compose])
    /\ msTimers' = Tail(msTimers)
    /\ UNCHANGED <<msSelected, msDraft, msEnh, msSugg, msAiLoading, msSends,
                   msEnhancing, msComposed>>

\* onClick of a conversation: setSelectedConversation, fetchMessages.
MsSelect(c) ==
    /\ msSelected' = c
    /\ msMessages' = MsMockMessages(c)
    /\ UNCHANGED <<msDraft, msEnh, msSugg, msAiLoading, msSends, msTimers,
                   msEnhancing, msComposed>>

(***************************************************************************)
(* PropertyValuationPage                                                   *)
(***************************************************************************)

\* Number of valuations the history pvLog keeps.
MaxCalls == 2

\* Form data that passes the rules of the form (beds >= 1, sqft >= 100,
\* 1800 <= year_built <= this year).
PvForms == [beds : {3}, sqft : {1500, 2000}, year_built : {2000, 2010}]

\* PvMockResult without an explanation and with the confidence drawn from
\* 0.85 + Math.random() instead of 0.85 + Math.random() * 0.1
PvMockResultWideConfidence(data, r) ==
    [ kind |-> "result",
      id |-> RandFloor(r[1], 10000),
      predicted_value |-> 275000 + Rand(r[2], 100000),
      value_uncertainty |-> 15000 + Rand(r[3], 10000),
      price_per_sqft |-> 183330,
      comparable_sales_count |-> 12,
      days_on_market_avg |-> 45500,
      confidence_score |-> 850 + Rand(r[4], 1000) ]

\* mockResult of onSubmit, for the samples r of its Math.random() calls
\* (valuation_date, the time of the call, is left out)
PvMockResult(data, r) ==
    [ kind |-> "result",
      id |-> RandFloor(r[1], 10000),
      predicted_value |-> 275000 + Rand(r[2], 100000),
      value_uncertainty |-> 15000 + Rand(r[3], 10000),
      price_per_sqft |-> 183330,
      comparable_sales_count |-> 12,
      days_on_market_avg |-> 45500,
      confidence_score |-> 850 + Rand(r[4], 100),
      explanation |->
        [ base_value |-> 192500,
          prediction_value |-> 275000,
          top_positive_features |->
            << [feature_name |-> "sqft", attribution_value |-> 45000,
                feature_value |-> data.sqft],
               [feature_name |-> "location", attribution_value |-> 25000,
                feature_value |-> 850],
               [feature_name |-> "beds", attribution_value |-> 12000,
                feature_value |-> data.beds] >>,
          top_negative_features |->
            << [feature_name |-> "age", attribution_value |-> -8000,
                feature_value |-> 2024 - data.year_built] >> ] ]

PvInit ==
    /\ pvLoading = FALSE
    /\ pvResult = NoResult
    /\ pvPc = "idle"
    /\ pvData = [beds |-> 3, sqft |-> 1500, year_built |-> 2000]
    /\ pvToast = "none"
    /\ pvLog = <<>>

\* handleSubmit(onSubmit) up to the await; the button is disabled while loading.
PvSubmit(data) ==
    /\ pvPc = "idle"
    /\ ~pvLoading
    /\ Len(pvLog) < MaxCalls
    /\ pvLoading' = TRUE
    /\ pvPc' = "await"
    /\ pvData' = data
    /\ UNCHANGED <<pvResult, pvToast, pvLog>>

\* The timer fires: mockResult, setResult, toast.success, finally.
PvFinish(r) ==
    /\ pvPc = "await"
    /\ pvResult' = PvMockResult(pvData, r)
    /\ pvToast' = "success"
    /\ pvLoading' = FALSE
    /\ pvPc' = "idle"
    /\ pvLog' = Append(pvLog, <<pvData, pvResult'>>)
    /\ UNCHANGED pvData

(***************************************************************************)
(* BeneficiaryScoringPage                                                  *)
(***************************************************************************)

\* custom_weights: the default of the form and two other settings of the
\* sliders (each from 1 to 10 in steps of 0.5)
BsWeights ==
    { [value |-> 8000, school |-> 8000, crime_inv |-> 6000, env_inv |-> 5000,
       employer_proximity |-> 7000],
      [value |-> 10000, school |-> 1000, crime_inv |-> 1000, env_inv |-> 1000,
       employer_proximity |-> 1000],
      [value |-> 1500, school |-> 1500, crime_inv |-> 1500, env_inv |-> 1500,
       employer_proximity |-> 1500] }

\* custom_weights as the type of the request admits them (each field any
\* number): those of the sliders and the all-zero vector, which the sliders
\* do not reach
BsRequestWeights ==
    BsWeights \cup
    { [value |-> 0, school |-> 0, crime_inv |-> 0, env_inv |-> 0,
       employer_proximity |-> 0] }

\* mockResult of onSubmit, for the samples r of its Math.random() calls
\* (id, score_components, calculated_at and the explanation are left out)
BsMockResult(data, r) ==
    [ kind |-> "result",
      overall_score       |-> 65000 + Rand(r[1], 30000),
      value_score         |-> 70000 + Rand(r[2], 25000),
      school_score        |-> 80000 + Rand(r[3], 20000),
      safety_score        |-> 60000 + Rand(r[4], 30000),
      environmental_score |-> 85000 + Rand(r[5], 15000),
      accessibility_score |-> 75000 + Rand(r[6], 20000),
      scoring_weights     |-> data.custom_weights,
      model_version       |-> "2.0.0" ]

BsInit ==
    /\ bsLoading = FALSE
    /\ bsResult = NoResult
    /\ bsPc = "idle"
    /\ bsData = [custom_weights |->
                   [value |-> 8000, school |-> 8000, crime_inv |-> 6000,
                    env_inv |-> 5000, employer_proximity |-> 7000]]
    /\ bsToast = "none"

\* handleSubmit(onSubmit) up to the await; the button is disabled while loading.
BsSubmit(data) ==
    /\ bsPc = "idle"
    /\ ~bsLoading
    /\ bsLoading' = TRUE
    /\ bsPc' = "await"
    /\ bsData' = data
    /\ UNCHANGED <<bsResult, bsToast>>

\* The timer fires: mockResult, setResult, toast.success, finally.
BsFinish(r) ==
    /\ bsPc = "await"
    /\ bsResult' = BsMockResult(bsData, r)
    /\ bsToast' = "success"
    /\ bsLoading' = FALSE
    /\ bsPc' = "idle"
    /\ UNCHANGED bsData

(***************************************************************************)
(* PropertyRecommendationsPage                                             *)
(***************************************************************************)

\* Form data: max_recommendations at the least setting of its slider (5 to 50
\* in steps of 5), min_beds at its default 2 or raised to 4.
PrForms == [max_recommendations : {5}, min_beds : {2, 4},
            recommendation_type : {"hybrid"}]

\* One entry of mockResults before the sort, for the samples of its
\* Math.random() calls (of recommended_property the model keeps beds)
PrMockEntry(index, rBeds, rSim) ==
    [ id |-> index,
      beds |-> RandFloor(rBeds, 4) + 2,
      similarity_score |-> 600 + Rand(rSim, 400),
      rank_position |-> index ]

\* PrMockEntries with one entry too many
PrMockEntriesOneMore(n, rBeds, rSim) ==
    [index \in 1..(n + 1) |->
        PrMockEntry(index, rBeds[IF index > n THEN n ELSE index],
                    rSim[IF index > n THEN n ELSE index])]

\* Array.from({ length: n }, (_, index) => ...) with index + 1 written index
PrMockEntries(n, rBeds, rSim) ==
    [index \in 1..n |-> PrMockEntry(index, rBeds[index], rSim[index])]

\* Insert e into the sorted s behind every entry the comparator
\* (a, b) => b.similarity_score - a.similarity_score does not put after it.
RECURSIVE InsertBySimilarity(_, _)
InsertBySimilarity(s, e) ==
    IF s = <<>> THEN <<e>>
    ELSE IF Head(s).similarity_score >= e.similarity_score
         THEN <<Head(s)>> \o InsertBySimilarity(Tail(s), e)
         ELSE <<e>> \o s

\* Array.prototype.sort with that comparator: stable, similarity descending.
RECURSIVE SortBySimilarity(_)
SortBySimilarity(s) ==
    IF s = <<>> THEN <<>>
    ELSE InsertBySimilarity(SortBySimilarity(SubSeq(s, 1, Len(s) - 1)), s[Len(s)])

\* mockResults of onSubmit
PrMockResults(data, rBeds, rSim) ==
    SortBySimilarity(PrMockEntries(data.max_recommendations, rBeds, rSim))

PrInit ==
    /\ prLoading = FALSE
    /\ prResults = <<>>
    /\ prPc = "idle"
    /\ prData = [max_recommendations |-> 5, min_beds |-> 2,
                 recommendation_type |-> "hybrid"]
    /\ prToast = "none"
    /\ prRepeat = FALSE

\* handleSubmit(onSubmit) up to the await; the button is disabled while loading.
PrSubmit(data) ==
    /\ prPc = "idle"
    /\ ~prLoading
    /\ prLoading' = TRUE
    /\ prPc' = "await"
    /\ prData' = data
    /\ prRepeat' = (prToast = "success" /\ data = prData)
    /\ UNCHANGED <<prResults, prToast>>

\* The timer fires: mockResults, setResults, toast.success, finally.
PrFinish(rBeds, rSim) ==
    /\ prPc = "await"
    /\ prResults' = PrMockResults(prData, rBeds, rSim)
    /\ prToast' = "success"
    /\ prLoading' = FALSE
    /\ prPc' = "idle"
    /\ prRepeat' = FALSE
    /\ UNCHANGED prData

(***************************************************************************)
(* Specifications                                                          *)
(***************************************************************************)

(***************************************************************************)
(* nvapiService.generateLandAnalysisResponse: the score of a land analysis *)
(* and the verdict returned with it. Scores are in thousandths.            *)
(***************************************************************************)

\* Resolution of the grid the Math.random() of overallScore is sampled on:
\* with 4000 cells the raw score moves in hundredths over [60, 100).
LaDen == 4000

LaSamples == 0..(LaDen - 1)

LaNoResponse == [kind |-> "none"]

\* overallScore = Math.random() * 40 + 60, for the sample k: the middle of the
\* k-th cell of the grid, so that no score drawn lies half-way between two
\* decimals, where toFixed goes by the binary value of the number.
LaOverallScore(k) == ((2 * k + 1) * 40000) \div (2 * LaDen) + 60000

\* Number(x.toFixed(1)): x rounded to one decimal, half away from zero (x >= 0)
LaToFixed1(x) == ((x + 50) \div 100) * 100

\* Number(x.toFixed(2)): x rounded to two decimals
LaToFixed2(x) == ((x + 5) \div 10) * 10

\* The object generateLandAnalysisResponse returns (the fields that depend on
\* the two first Math.random() calls; the lists of texts are left out).
LaAnalysis(overallScore, confidenceLevel) ==
    [ kind |-> "analysis",
      overallScore |-> LaToFixed1(overallScore),
      recommendation |-> IF overallScore >= 80000 THEN "buy"
                         ELSE IF overallScore >= 65000 THEN "hold"
                         ELSE "avoid",
      confidenceLevel |-> LaToFixed2(confidenceLevel) ]

LaInit ==
    /\ laPc = "idle"
    /\ laRaw = 0
    /\ laResponse = LaNoResponse

\* generateLandAnalysisResponse is called and waits for its timer; the call
\* has drawn no score and returned nothing yet.
LaCall ==
    /\ laPc = "idle"
    /\ laPc' = "await"
    /\ laRaw' = 0
    /\ laResponse' = LaNoResponse

\* The timer fires: the score and the confidence are drawn, the response is
\* returned.
LaReturn(k, c) ==
    /\ laPc = "await"
    /\ laRaw' = LaOverallScore(k)
    /\ laResponse' = LaAnalysis(LaOverallScore(k), Rand(c, 300) + 700)
    /\ laPc' = "idle"


Init == CaInit /\ MvInit /\ PvInit /\ BsInit /\ PrInit /\ ScInit /\ AuInit /\ CtInit /\ MsInit /\ LaInit

\* ComprehensiveAnalysisPage.onSubmit
Next ==
    \/ \E data \in CaRequests :
          CaSubmit(data) /\ UNCHANGED <<mvVars, pvVars, bsVars, prVars, scVars, auVars, ctVars, msVars, laVars>>
    \/ CaStep /\ UNCHANGED <<mvVars, pvVars, bsVars, prVars, scVars, auVars, ctVars, msVars, laVars>>
    \/ \E r \in [1..9 -> RandSamples] :
          CaFinish(r) /\ UNCHANGED <<mvVars, pvVars, bsVars, prVars, scVars, auVars, ctVars, msVars, laVars>>
    \/ CaThrow /\ UNCHANGED <<mvVars, pvVars, bsVars, prVars, scVars, auVars, ctVars, msVars, laVars>>

Spec == Init /\ [][Next]_vars

\* Requests in flight while the model version is rotated
NextRotation ==
    \/ \E q \in MvRequests, input \in MvInputs :
          MvReceive(q, input) /\ UNCHANGED <<caVars, pvVars, bsVars, prVars, scVars, auVars, ctVars, msVars, laVars>>
    \/ \E q \in MvRequests :
          MvStage(q) /\ UNCHANGED <<caVars, pvVars, bsVars, prVars, scVars, auVars, ctVars, msVars, laVars>>
    \/ \E q \in MvRequests :
          MvReturn(q) /\ UNCHANGED <<caVars, pvVars, bsVars, prVars, scVars, auVars, ctVars, msVars, laVars>>
    \/ \E q \in MvRequests :
          MvAbort(q) /\ UNCHANGED <<caVars, pvVars, bsVars, prVars, scVars, auVars, ctVars, msVars, laVars>>
    \/ MvRotate /\ UNCHANGED <<caVars, pvVars, bsVars, prVars, scVars, auVars, ctVars, msVars, laVars>>

SpecRotation == Init /\ [][NextRotation]_vars

\* PropertyValuationPage.onSubmit
NextValuation ==
    \/ \E data \in PvForms :
          PvSubmit(data) /\ UNCHANGED <<caVars, mvVars, bsVars, prVars, scVars, auVars, ctVars, msVars, laVars>>
    \/ \E r \in [1..4 -> RandSamples] :
          PvFinish(r) /\ UNCHANGED <<caVars, mvVars, bsVars, prVars, scVars, auVars, ctVars, msVars, laVars>>

SpecValuation == Init /\ [][NextValuation]_vars

\* BeneficiaryScoringPage.onSubmit
NextScoring ==
    \/ \E w \in BsWeights :
          BsSubmit([custom_weights |-> w]) /\ UNCHANGED <<caVars, mvVars, pvVars, prVars, scVars, auVars, ctVars, msVars, laVars>>
    \/ \E r \in [1..6 -> RandSamples] :
          BsFinish(r) /\ UNCHANGED <<caVars, mvVars, pvVars, prVars, scVars, auVars, ctVars, msVars, laVars>>

SpecScoring == Init /\ [][NextScoring]_vars

\* BeneficiaryScoringPage.onSubmit called with any request of its type
NextScoringRequest ==
    \/ \E w \in BsRequestWeights :
          BsSubmit([custom_weights |-> w]) /\ UNCHANGED <<caVars, mvVars, pvVars, prVars, scVars, auVars, ctVars, msVars, laVars>>
    \/ \E r \in [1..6 -> RandSamples] :
          BsFinish(r) /\ UNCHANGED <<caVars, mvVars, pvVars, prVars, scVars, auVars, ctVars, msVars, laVars>>

SpecScoringRequest == Init /\ [][NextScoringRequest]_vars

\* PropertyRecommendationsPage.onSubmit
NextRecommend ==
    \/ \E data \in PrForms :
          PrSubmit(data) /\ UNCHANGED <<caVars, mvVars, pvVars, bsVars, scVars, auVars, ctVars, msVars, laVars>>
    \/ \E rBeds, rSim \in [1..prData.max_recommendations -> RandSamples] :
          PrFinish(rBeds, rSim) /\ UNCHANGED <<caVars, mvVars, pvVars, bsVars, scVars, auVars, ctVars, msVars, laVars>>

SpecRecommend == Init /\ [][NextRecommend]_vars

\* Calls of the Beneficiary Scorer
NextScorer ==
    \E raw \in [1..Len(ScComponents) -> ScRawInputs], w \in {ScDefaultWeights, ScZeroWeights} :
       ScScore(raw, w) /\ UNCHANGED <<caVars, mvVars, pvVars, bsVars, prVars, auVars, ctVars, msVars, laVars>>

SpecScorer == Init /\ [][NextScorer]_vars

\* Startup auth check, login, register, logout and navigation
NextAuth ==
    \/ AuCheckStart /\ UNCHANGED <<caVars, mvVars, pvVars, bsVars, prVars, scVars, ctVars, msVars, laVars>>
    \/ \E u \in AuUsers :
          AuCheckResolve(u) /\ UNCHANGED <<caVars, mvVars, pvVars, bsVars, prVars, scVars, ctVars, msVars, laVars>>
    \/ \E status \in AuStatuses :
          AuCheckReject(status) /\ UNCHANGED <<caVars, mvVars, pvVars, bsVars, prVars, scVars, ctVars, msVars, laVars>>
    \/ AuLoginStart /\ UNCHANGED <<caVars, mvVars, pvVars, bsVars, prVars, scVars, ctVars, msVars, laVars>>
    \/ AuLoginToken /\ UNCHANGED <<caVars, mvVars, pvVars, bsVars, prVars, scVars, ctVars, msVars, laVars>>
    \/ \E u \in AuUsers :
          AuLoginResolve(u) /\ UNCHANGED <<caVars, mvVars, pvVars, bsVars, prVars, scVars, ctVars, msVars, laVars>>
    \/ \E status \in AuStatuses :
          AuLoginReject(status) /\ UNCHANGED <<caVars, mvVars, pvVars, bsVars, prVars, scVars, ctVars, msVars, laVars>>
    \/ AuRegisterStart /\ UNCHANGED <<caVars, mvVars, pvVars, bsVars, prVars, scVars, ctVars, msVars, laVars>>
    \/ AuRegisterResolve /\ UNCHANGED <<caVars, mvVars, pvVars, bsVars, prVars, scVars, ctVars, msVars, laVars>>
    \/ \E status \in AuStatuses :
          AuRegisterReject(status) /\ UNCHANGED <<caVars, mvVars, pvVars, bsVars, prVars, scVars, ctVars, msVars, laVars>>
    \/ AuLogout /\ UNCHANGED <<caVars, mvVars, pvVars, bsVars, prVars, scVars, ctVars, msVars, laVars>>
    \/ AuAutomationSend /\ UNCHANGED <<caVars, mvVars, pvVars, bsVars, prVars, scVars, ctVars, msVars, laVars>>
    \/ AuAutomationResolve /\ UNCHANGED <<caVars, mvVars, pvVars, bsVars, prVars, scVars, ctVars, msVars, laVars>>
    \/ \E status \in AuStatuses :
          AuAutomationReject(status) /\ UNCHANGED <<caVars, mvVars, pvVars, bsVars, prVars, scVars, ctVars, msVars, laVars>>
    \/ \E p \in AuPaths :
          AuNavigate(p) /\ UNCHANGED <<caVars, mvVars, pvVars, bsVars, prVars, scVars, ctVars, msVars, laVars>>
    \/ AuRedirect /\ UNCHANGED <<caVars, mvVars, pvVars, bsVars, prVars, scVars, ctVars, msVars, laVars>>
    \/ \E p \in AuPaths :
          AuReload(p) /\ UNCHANGED <<caVars, mvVars, pvVars, bsVars, prVars, scVars, ctVars, msVars, laVars>>

SpecAuth == Init /\ [][NextAuth]_vars

\* Calls of the three contact permission checks
NextContact ==
    \/ \E u \in CtUsers : CtSetUser(u) /\ UNCHANGED <<caVars, mvVars, pvVars, bsVars, prVars, scVars, auVars, msVars, laVars>>
    \/ \E target \in CtRoles :
          CtCallCanContactDirectly(target) /\ UNCHANGED <<caVars, mvVars, pvVars, bsVars, prVars, scVars, auVars, msVars, laVars>>
    \/ \E agent \in [user_role : CtAgentRoles] :
          CtCallCanContact(agent) /\ UNCHANGED <<caVars, mvVars, pvVars, bsVars, prVars, scVars, auVars, msVars, laVars>>
    \/ \E agent \in CtPropertyAgents :
          CtCallHandleContactAgent(agent) /\ UNCHANGED <<caVars, mvVars, pvVars, bsVars, prVars, scVars, auVars, msVars, laVars>>

SpecContact == Init /\ [][NextContact]_vars

\* MessagesPage: composing, sending, replies, selecting a conversation
NextMessages ==
    \/ \E text \in MsTexts \cup {""} : MsType(text) /\ UNCHANGED <<caVars, mvVars, pvVars, bsVars, prVars, scVars, auVars, ctVars, laVars>>
    \/ MsEnhanced /\ UNCHANGED <<caVars, mvVars, pvVars, bsVars, prVars, scVars, auVars, ctVars, laVars>>
    \/ MsSuggested /\ UNCHANGED <<caVars, mvVars, pvVars, bsVars, prVars, scVars, auVars, ctVars, laVars>>
    \/ \E via \in {"button", "enter"} : MsSend(via) /\ UNCHANGED <<caVars, mvVars, pvVars, bsVars, prVars, scVars, auVars, ctVars, laVars>>
    \/ MsSendContinue /\ UNCHANGED <<caVars, mvVars, pvVars, bsVars, prVars, scVars, auVars, ctVars, laVars>>
    \/ MsAiReply /\ UNCHANGED <<caVars, mvVars, pvVars, bsVars, prVars, scVars, auVars, ctVars, laVars>>
    \/ \E c \in MsConversations : MsSelect(c) /\ UNCHANGED <<caVars, mvVars, pvVars, bsVars, prVars, scVars, auVars, ctVars, laVars>>

SpecMessages == Init /\ [][NextMessages]_vars

(***************************************************************************)
(* Claims about the comprehensive analysis (Spec)                          *)
(***************************************************************************)

\* The stages of a request in the order onSubmit enters them.
CodeOrder == <<"received">> \o analysisSteps \o <<"assembled", "returned">>

\* The stage order the design gives.
DesignOrder == <<"received", "features_built", "valuation_done", "scoring_done",
                 "recommendations", "explanations", "assembled", "returned">>

\* The design's name of a stage of the page.
DesignStage(s) ==
    CASE s = "Property Valuation (AVM)" -> "valuation_done"
      [] s = "Beneficiary Scoring"      -> "scoring_done"
      [] s = "Property Recommendations" -> "recommendations"
      [] s = "AI Explanations"          -> "explanations"
      [] OTHER                          -> s

Failed(trace) == \E n \in 1..Len(trace) : trace[n] = "failed"

\* trace follows order: it is a prefix of it, or a prefix cut short by a failure
FollowsOrder(trace, order) ==
    \/ IsPrefix(trace, order)
    \/ \E n \in 1..(Len(order) - 2) :
          trace = SubSeq(order, 1, n) \o <<"failed", "returned">>

C28_StepsAdvanceByOne ==
    /\ [](/\ Len(caSteps) > 0 => caSteps[1] = 0
          /\ \A n \in 1..Len(caSteps) : caSteps[n] \in 0..Len(analysisSteps)
          /\ \A n \in 1..(Len(caSteps) - 1) :
                \/ caSteps[n + 1] = caSteps[n] + 1
                \/ n + 1 = Len(caSteps) /\ caPc = "idle" /\ caSteps[n + 1] = 0
          /\ caPc = "await" => (caLoading /\ caActiveStep = caSteps[Len(caSteps)])
          /\ caPc = "idle" => (~caLoading /\ caActiveStep = 0))
    /\ [][caResult' # caResult =>
            \E n \in 1..Len(caSteps') : caSteps'[n] = Len(analysisSteps)]_vars

\* A run has gone through the steps 0 to 5, has set its result and has ended.
C28_Witness ==
    /\ caSteps = <<0, 1, 2, 3, 4, 5, 0>>
    /\ caResult # NoResult
    /\ caPc = "idle"
    /\ ~caLoading
    /\ caActiveStep = 0

(***************************************************************************)
(* Claims about the model versions (SpecRotation)                          *)
(***************************************************************************)

\* C3: every request performs all its stages with artifacts of one version,
\* also when the loaded version is rotated while it is in flight.
C3_OneVersionPerRequest ==
    \A q \in MvRequests : \A m, n \in 1..Len(mvUsed[q]) : mvUsed[q][m] = mvUsed[q][n]

\* A request has run all its stages and the version was rotated between two
\* of them.
C3_Witness ==
    \E q \in MvRequests :
        /\ mvMid[q]
        /\ Len(mvUsed[q]) = Len(MvStages)
        /\ mvLoaded > mvUsed[q][1]

MvOthers(q) ==
    [p \in MvRequests \ {q} |-> <<mvCtx[p], mvUsed[p], mvMid[p], mvInput[p], mvOut[p], mvAborted[p]>>]

\* C19: when the caller of a request aborts it before it returns, what the
\* request had computed is dropped; nothing is persisted, and the loaded
\* model and the state of the other requests are unchanged.
C19_AbortHasNoSideEffects ==
    [][\A q \in MvRequests :
          (~mvAborted[q] /\ mvAborted'[q])
            => /\ mvOut'[q] = <<>>
               /\ mvCtx'[q] = 0
               /\ mvStore' = mvStore
               /\ mvStore' = {}
               /\ mvLoaded' = mvLoaded
               /\ MvOthers(q)' = MvOthers(q)]_vars

\* Request 1 was aborted with its explanation stage still to run, while
\* request 2 was in flight with part of its result.
C19_Witness ==
    /\ mvAborted[1]
    /\ Len(mvUsed[1]) = Len(MvStages) - 1
    /\ mvOut[1] = <<>>
    /\ mvCtx[1] = 0
    /\ mvStore = {}
    /\ mvCtx[2] # 0
    /\ Len(mvOut[2]) > 0

(***************************************************************************)
(* Claims about the property valuation (SpecValuation)                     *)
(***************************************************************************)

\* The attribution values of a list of features
Attributions(features) == [n \in 1..Len(features) |-> features[n].attribution_value]

C10_ValuationIdempotent ==
    \A m, n \in 1..Len(pvLog) :
        pvLog[m][1] = pvLog[n][1] =>
            /\ pvLog[m][2].predicted_value = pvLog[n][2].predicted_value
            /\ pvLog[m][2].value_uncertainty = pvLog[n][2].value_uncertainty
            /\ pvLog[m][2].confidence_score = pvLog[n][2].confidence_score

(***************************************************************************)
(* Claims about the beneficiary score (SpecScoring)                        *)
(***************************************************************************)

\* C6: overall equals the sum of component times weight over the sum of the
\* weights, for the five component scores and the weights used (counted in
\* steps of the sliders), and lies in [0, 100].
C6_OverallIsWeightedMean ==
    bsResult # NoResult =>
        LET sw == bsResult.scoring_weights
            \* the weights in steps of the sliders (0.5)
            w == [f \in DOMAIN sw |-> sw[f] \div 500]
            sumW == w.value + w.school + w.crime_inv + w.env_inv + w.employer_proximity
            sumCW == bsResult.value_score * w.value
                       + bsResult.school_score * w.school
                       + bsResult.safety_score * w.crime_inv
                       + bsResult.environmental_score * w.env_inv
                       + bsResult.accessibility_score * w.employer_proximity
        IN  sumW > 0 =>
              /\ bsResult.overall_score * sumW = sumCW
              /\ bsResult.overall_score >= 0
              /\ bsResult.overall_score <= 100000

(***************************************************************************)
(* Claims about the recommendations (SpecRecommend)                        *)
(***************************************************************************)

\* C7: the rank positions of a returned list are 1..n without gaps or repeats,
\* and of two results the one of strictly higher similarity has the smaller
\* rank position.
C7_RanksFollowSimilarity ==
    /\ {prResults[n].rank_position : n \in 1..Len(prResults)} = 1..Len(prResults)
    /\ \A m, n \in 1..Len(prResults) :
          prResults[m].similarity_score > prResults[n].similarity_score
            => prResults[m].rank_position < prResults[n].rank_position

\* C8: a returned list has at most max_recommendations entries.
C8_AtMostMax ==
    prPc = "idle" => Len(prResults) <= prData.max_recommendations

\* A list of recommendations has been returned.
C8_Witness ==
    /\ prPc = "idle"
    /\ prToast = "success"
    /\ Len(prResults) = prData.max_recommendations
    /\ Len(prResults) > 0

\* C9: no returned recommendation has fewer beds than the min_beds of the
\* request.
C9_HardFiltersHold ==
    prPc = "idle" =>
        \A n \in 1..Len(prResults) : prResults[n].beds >= prData.min_beds

(***************************************************************************)
(* Claims C11 to C15                                                       *)
(***************************************************************************)

AllZero(w) ==
    /\ w.value = 0
    /\ w.school = 0
    /\ w.crime_inv = 0
    /\ w.env_inv = 0
    /\ w.employer_proximity = 0

C12_ConfidenceDecreases ==
    \A m, n \in 1..Len(pvLog) :
        LET a == pvLog[m][2]
            b == pvLog[n][2]
        IN  (a.value_uncertainty \div 10) * (b.predicted_value \div 10)
              > (b.value_uncertainty \div 10) * (a.predicted_value \div 10)
            => a.confidence_score <= b.confidence_score

\* C13 (SpecValuation): in every valuation, price_per_sqft is predicted_value
\* divided by the sqft of the request, to the cent (price_per_sqft is in
\* thousandths of a dollar, half a cent is 5 of them).
C13_PricePerArea ==
    \A n \in 1..Len(pvLog) :
        LET data == pvLog[n][1]
            res == pvLog[n][2]
        IN  /\ data.sqft > 0
            /\ Abs(res.price_per_sqft * data.sqft - res.predicted_value * 1000)
                 <= 5 * data.sqft

\* C14 (SpecValuation): the uncertainty of every valuation is non-negative
\* and its confidence lies in [0, 1].
C14_UncertaintyAndConfidenceRanges ==
    /\ pvResult # NoResult =>
          /\ pvResult.value_uncertainty >= 0
          /\ pvResult.confidence_score >= 0
          /\ pvResult.confidence_score <= 1000
    /\ \A n \in 1..Len(pvLog) :
          /\ pvLog[n][2].value_uncertainty >= 0
          /\ pvLog[n][2].confidence_score >= 0
          /\ pvLog[n][2].confidence_score <= 1000

\* A valuation whose Math.random() calls all returned the greatest sample.
C14_Witness ==
    /\ pvResult # NoResult
    /\ pvPc = "idle"
    /\ pvResult.value_uncertainty = 15000 + Rand(RandDen - 1, 10000)
    /\ pvResult.confidence_score = 850 + Rand(RandDen - 1, 100)

\* C15 (Spec): every response body (valuation, beneficiary score,
\* recommendations, comprehensive analysis) has a model_version.
C15_ModelVersionInEveryResponse ==
    /\ caResult # NoResult => "model_version" \in DOMAIN caResult
    /\ pvResult # NoResult => "model_version" \in DOMAIN pvResult
    /\ bsResult # NoResult => "model_version" \in DOMAIN bsResult
    /\ \A n \in 1..Len(prResults) : "model_version" \in DOMAIN prResults[n]

(***************************************************************************)
(* Claim C16 (SpecRecommend)                                               *)
(***************************************************************************)

\* The candidates of a list, in its order
Candidates(results) == [n \in 1..Len(results) |-> results[n].id]

\* C16: a request with the input of the request before it returns the same
\* candidates in the same order, and candidates of equal similarity are in
\* ascending order of id.
C16_SameInputSameOrder ==
    [][(prPc = "await" /\ prPc' = "idle" /\ prRepeat)
         => /\ Candidates(prResults') = Candidates(prResults)
            /\ \A m, n \in 1..Len(prResults') :
                  (m < n /\ prResults'[m].similarity_score = prResults'[n].similarity_score)
                    => prResults'[m].id < prResults'[n].id]_vars

(***************************************************************************)
(* Claims about the Beneficiary Scorer (SpecScorer)                        *)
(***************************************************************************)

\* The components of the last call whose raw input was missing.
ScMissingOf(input) == {n \in 1..Len(ScComponents) : ~input.raw[n].present}

AuProtectedPaths == {p \in AuPaths : AuGuard[p] = "protected"}

\* C20 as stated: in any sequence of startup auth check, login, register,
\* logout and navigation, a ProtectedRoute renders its children only while
\* user is not null and loading is false, and with no user it redirects to
\* /login.
C20_NoUserRedirects ==
    \A p \in AuProtectedPaths :
        /\ AuRender(p).kind = "children" => (auUser # AuNoUser /\ ~auLoading)
        /\ auUser = AuNoUser => AuRender(p) = [kind |-> "Navigate", to |-> "/login"]

\* C20: in any sequence of startup auth check, login, register, logout and
\* navigation, a ProtectedRoute renders its children only while user is not
\* null and loading is false; with no user and loading false it redirects to
\* /login, and while loading is true it renders the LoadingSpinner.
C20_ProtectedRouteGuards ==
    \A p \in AuProtectedPaths :
        /\ AuRender(p).kind = "children" => (auUser # AuNoUser /\ ~auLoading)
        /\ (auUser = AuNoUser /\ ~auLoading)
              => AuRender(p) = [kind |-> "Navigate", to |-> "/login"]
        /\ auLoading => AuRender(p).kind = "LoadingSpinner"

\* The startup check is over, there is no user and no token (none was stored,
\* or the user logged out), and the protected route at the location redirects
\* to /login.
C20_Witness ==
    /\ auPath \in AuProtectedPaths
    /\ auUser = AuNoUser
    /\ auToken = "none"
    /\ ~auLoading
    /\ auCheck = "done"
    /\ AuRender(auPath) = [kind |-> "Navigate", to |-> "/login"]

\* C21: after a successful login (there is a user, and localStorage holds the
\* access token that login stored), every request sent through the automation
\* API client carries the header Authorization: Bearer with that token.
C21_AutomationRequestsCarryToken ==
    (auSent.client = "automationApi" /\ auSent.user # AuNoUser
        /\ auSent.access_token # "none")
      => auSent.authorization = [scheme |-> "Bearer", token |-> auSent.access_token]

\* C22: after login() has returned false, user is null and localStorage holds
\* no access_token written by that call.
C22_FailedLoginLeavesNothing ==
    auLast = "false" => (auUser = AuNoUser /\ ~(auWrote /\ auToken # "none"))

\* C29: from any location and any auth state, also after the page was loaded
\* anew at /login by a 401 response, the redirects of the route guards never
\* come back to a location they have left (so the chain ends within as many
\* steps as there are routes, and never cycles between /login and
\* /dashboard), and where the chain ends the route renders its children or,
\* while loading, the LoadingSpinner.
C29_RedirectsTerminate ==
    /\ auChain[Len(auChain)] = auPath
    /\ \A m, n \in 1..Len(auChain) : m # n => auChain[m] # auChain[n]
    /\ AuRender(auPath).kind \in {"children", "LoadingSpinner", "Navigate"}
    /\ AuRender(auPath).kind = "Navigate" => AuRender(auPath).to \notin {auChain[n] : n \in 1..Len(auChain)}

\* With no user, /admin was redirected to /dashboard and that to /login, where
\* the chain ended on the login page.
C29_Witness ==
    /\ auChain = <<"/admin", "/dashboard", "/login">>
    /\ auUser = AuNoUser
    /\ AuRender(auPath).kind = "children"

(***************************************************************************)
(* Claims about the contact permissions (SpecContact)                      *)
(***************************************************************************)

\* C23: a user whose role is seller is never granted direct contact:
\* canContactDirectly returns false for every target role, canContact returns
\* false for every agent, and handleContactAgent does not navigate to a new
\* message.
C23_SellerNeverContacts ==
    /\ (ctDirect.kind = "call" /\ ctDirect.user = "seller") => ~ctDirect.verdict
    /\ (ctDialog.kind = "call" /\ ctDialog.user = "seller") => ~ctDialog.verdict
    /\ (ctPage.kind = "call" /\ ctPage.user = "seller") => ctPage.navigate # "/messages/new"
    /\ \A target \in CtRoles : ~canContactDirectly("seller", target)
    /\ \A agent \in [user_role : CtAgentRoles] : ~canContact("seller", agent).verdict
    /\ \A agent \in CtPropertyAgents :
          handleContactAgent("seller", agent).navigate # "/messages/new"

\* A seller has asked all three checks about a seller agent and was refused
\* by each.
C23_Witness ==
    /\ ctUser = "seller"
    /\ ctDirect.kind = "call" /\ ctDirect.user = "seller"
    /\ ctDirect.target = "seller_agent" /\ ~ctDirect.verdict
    /\ ctDialog.kind = "call" /\ ctDialog.user = "seller"
    /\ ctDialog.target = "seller_agent" /\ ~ctDialog.verdict
    /\ ctPage.kind = "call" /\ ctPage.user = "seller"
    /\ ctPage.agent = [present |-> TRUE, user_role |-> "seller_agent"] /\ ctPage.navigate = "none"

\* C24: for every current user (none, buyer, seller, buyer_agent,
\* seller_agent) and every target role, canContactDirectly and canContact
\* return the same verdict.
C24_SameVerdict ==
    (ctDirect.kind = "call" /\ ctDialog.kind = "call"
        /\ ctDirect.user = ctDialog.user /\ ctDirect.target = ctDialog.target)
      => ctDirect.verdict = ctDialog.verdict

(***************************************************************************)
(* Claims about MessagesPage (SpecMessages)                                *)
(***************************************************************************)

\* C25: one composed message is appended to the conversation exactly once,
\* also when send is triggered again (Send button or Enter key) while the
\* first send is in flight.
C25_AppendedOnce ==
    \A m, n \in 1..Len(msMessages) :
        (m # n /\ msMessages[m].kind = "user" /\ msMessages[n].kind = "user")
          => msMessages[m].compose # msMessages[n].compose

\* C26: the delayed AI reply to a message is only ever in the message list of
\* the conversation in which the message was sent, also when another
\* conversation was selected before the reply arrived.
C26_ReplyInItsConversation ==
    \A n \in 1..Len(msMessages) :
        msMessages[n].kind = "ai" => msMessages[n].conv = msSelected

NextLandAnalysis ==
    \/ LaCall /\ UNCHANGED <<caVars, mvVars, pvVars, bsVars, prVars, scVars, auVars, ctVars, msVars>>
    \/ \E k \in LaSamples, c \in RandSamples :
          LaReturn(k, c) /\ UNCHANGED <<caVars, mvVars, pvVars, bsVars, prVars, scVars, auVars, ctVars, msVars>>

SpecLandAnalysis == Init /\ [][NextLandAnalysis]_vars

\* C30: in every land-analysis response the verdict agrees with the reported
\* overallScore: buy exactly when it is at least 80, hold when it is at least
\* 65 and below 80, avoid otherwise.
C30_VerdictAgreesWithReportedScore ==
    laResponse # LaNoResponse =>
        laResponse.recommendation =
            IF laResponse.overallScore >= 80000 THEN "buy"
            ELSE IF laResponse.overallScore >= 65000 THEN "hold"
            ELSE "avoid"

====
